---- MODULE Spec2Model ----
(***************************************************************************)
(* The data collector of python_dashboard.py as a state machine.           *)
(*                                                                         *)
(* State: the module globals node_data, alerts and last_update, the        *)
(* collector's running flag, the two files DATA_FILE and ALERT_FILE, the   *)
(* position and locals of every _collect_loop thread, and the position of  *)
(* the clear_data request handler.  Every statement of the loop that       *)
(* reads or writes shared state (a global, a file) is one step, so that    *)
(* the handlers of the Flask threads interleave with it as they do under   *)
(* the interpreter.                                                        *)
(*                                                                         *)
(* Time: last_update holds the ordinal of the assignment at line 93 that   *)
(* set it (0 is None); successive values of datetime.now() at that line    *)
(* strictly increase.  The receipt times stored at lines 87, 108 and 118   *)
(* are written by the code and read by nothing in it; the table entries    *)
(* and alert records of the model leave them out and the log row carries   *)
(* an opaque cell for its timestamp column.                                *)
(***************************************************************************)
EXTENDS Integers, Sequences, FiniteSets, TLC

\* ------------------------------------------------------------ bounds
MaxLoops == 2        \* thread slots for _collect_loop
MaxRows == 3         \* data rows the log may hold when a node response is drawn
MaxUpdates == 2      \* assignments of last_update
MaxAlertsMain == 1   \* alert records appended, where the node side is explored
MaxAlertsFull == 60  \* alert records appended, where the alert side is explored
MaxTextLen == 4      \* characters of an alert response, where the parsing is explored
MaxAlertsParse == 1  \* alert records appended, where the parsing is explored

\* ------------------------------------------------- program constants
HTTP_OK == 200
HistoryCap == 50
PerCycle == 20

Loops == 1..MaxLoops

\* ------------------------------------------------------------- text
\* A text is a sequence of one-character strings.
NL == "\n"
COMMA == ","
Whitespace == {" ", "\n", "\t", "\r"}

Digits == <<"0", "1", "2", "3", "4", "5", "6", "7", "8", "9">>

RECURSIVE NatStr(_)
NatStr(n) == IF n < 10 THEN Digits[n + 1]
             ELSE NatStr(n \div 10) \o Digits[(n % 10) + 1]

\* str() of an int, as pandas writes it to a CSV cell
IntStr(n) == IF n < 0 THEN "-" \o NatStr(0 - n) ELSE NatStr(n)

\* str() of a bool, as pandas writes it to a CSV cell
BoolStr(b) == IF b THEN "True" ELSE "False"

\* s[-n:]
LastN(s, n) == IF Len(s) <= n THEN s ELSE SubSeq(s, Len(s) - n + 1, Len(s))

\* str.strip(): s without its leading and trailing whitespace
Strip(s) ==
    LET keep == {i \in 1..Len(s) : s[i] \notin Whitespace}
    IN  IF keep = {} THEN <<>>
        ELSE SubSeq(s, CHOOSE i \in keep : \A j \in keep : i <= j,
                       CHOOSE i \in keep : \A j \in keep : i >= j)

\* str.split(d): the segments between the occurrences of d, at least one
Split(s, d) ==
    LET at == {i \in 1..Len(s) : s[i] = d}
        n == Cardinality(at)
        \* the place of the k-th occurrence; 0 and Len(s) + 1 fence the text
        place(k) == IF k = 0 THEN 0
                    ELSE IF k = n + 1 THEN Len(s) + 1
                    ELSE CHOOSE p \in at : Cardinality({q \in at : q < p}) = k - 1
    IN  [k \in 1..(n + 1) |-> SubSeq(s, place(k - 1) + 1, place(k) - 1)]

\* d.join(parts)
RECURSIVE Join(_, _)
Join(parts, d) ==
    IF parts = <<>> THEN <<>>
    ELSE IF Len(parts) = 1 THEN parts[1]
    ELSE parts[1] \o <<d>> \o Join(Tail(parts), d)

\* ------------------------------------------------------ node readings
Ids == {"N1", "N2"}

\* the keys _process_data copies into a table entry (lines 76-86)
EntryFields == {"temp", "pres", "alt", "bat", "lat", "lng", "rssi", "snr",
                "alert", "offline", "lastSeen"}

\* the keys _process_data reads from a response element (lines 74-86)
NodeFields == EntryFields \cup {"id"}

\* a response element of node id whose reading is derived from v
Elem(id, v) == [id |-> id, temp |-> 20 + v, pres |-> 900 + v, alt |-> 100 + v,
                bat |-> 50 + v, lat |-> 12 + v, lng |-> 77 + v,
                rssi |-> 0 - (60 + v), snr |-> v, alert |-> (v = 2),
                offline |-> (v = 3), lastSeen |-> v]

\* a response element of node id that lacks the key "lat"
ElemNoLat(id, v) == [id |-> id, temp |-> 20 + v, pres |-> 900 + v,
                     alt |-> 100 + v, bat |-> 50 + v, lng |-> 77 + v,
                     rssi |-> 0 - (60 + v), snr |-> v, alert |-> (v = 2),
                     offline |-> (v = 3), lastSeen |-> v]

\* a response element that lacks the key "id"
ElemNoId(v) == [temp |-> 20 + v, pres |-> 900 + v, alt |-> 100 + v,
                bat |-> 50 + v, lat |-> 12 + v, lng |-> 77 + v,
                rssi |-> 0 - (60 + v), snr |-> v, alert |-> (v = 2),
                offline |-> (v = 3), lastSeen |-> v]

\* the "nodes" arrays the gateway answers with
NodeBodies ==
    { <<>>,
      << Elem("N1", 1) >>,
      << Elem("N1", 2), Elem("N2", 1) >>,
      << Elem("N2", 3), Elem("N2", 2) >>,
      << Elem("N2", 2), ElemNoLat("N1", 3), Elem("N1", 1) >>,
      << ElemNoId(1), Elem("N1", 3) >> }

\* the outcomes of requests.get(.../api/nodes) followed by response.json()
NodeResponses ==
    { [kind |-> "raise", status |-> 0, valid |-> FALSE, nodes |-> <<>>],
      [kind |-> "resp", status |-> 503, valid |-> FALSE, nodes |-> <<>>],
      [kind |-> "resp", status |-> HTTP_OK, valid |-> FALSE, nodes |-> <<>>] }
    \cup { [kind |-> "resp", status |-> HTTP_OK, valid |-> TRUE, nodes |-> b] :
           b \in NodeBodies }

\* the dict literal of lines 75-88 without its 'timestamp'
Entry(node) == [f \in EntryFields |-> node[f]]

\* Put with the slip of node_data = {node_id: entry}: the other entries go
PutAlone(table, id, entry) == [k \in {id} |-> entry]

\* Put with the slip of an update in place, field by field
\* (node_data[node_id]['temp'] = ...), seen after its first assignment
PutTempFirst(table, id, entry) ==
    [k \in (DOMAIN table) \cup {id} |->
        IF k # id THEN table[k]
        ELSE IF id \in DOMAIN table
             THEN [table[id] EXCEPT !["temp"] = entry["temp"]]
             ELSE entry]

\* Put with the slip of node_data.setdefault(node_id, entry): an entry that is
\* already there stays
PutKeepOld(table, id, entry) ==
    [k \in (DOMAIN table) \cup {id} |->
        IF k \in DOMAIN table THEN table[k] ELSE entry]

\* node_data[node_id] = entry
Put(table, id, entry) ==
    [k \in (DOMAIN table) \cup {id} |-> IF k = id THEN entry ELSE table[k]]

\* the header row to_csv(header=True) writes: the keys of lines 118-128
HeaderRow == <<"timestamp", "node", "temp", "pressure", "altitude", "battery",
               "latitude", "longitude", "rssi", "snr", "alert">>

\* CsvRow with the slip of 'longitude': data['lat']
CsvRowLatTwice(node_id, d) ==
    <<"<now>", node_id, IntStr(d["temp"]), IntStr(d["pres"]), IntStr(d["alt"]),
      IntStr(d["bat"]), IntStr(d["lat"]), IntStr(d["lat"]), IntStr(d["rssi"]),
      IntStr(d["snr"]), BoolStr(d["alert"])>>

\* the data row to_csv writes for the one-row frame of lines 117-129
CsvRow(node_id, d) ==
    <<"<now>", node_id, IntStr(d["temp"]), IntStr(d["pres"]), IntStr(d["alt"]),
      IntStr(d["bat"]), IntStr(d["lat"]), IntStr(d["lng"]), IntStr(d["rssi"]),
      IntStr(d["snr"]), BoolStr(d["alert"])>>

\* the elements _process_data handles before one raises KeyError
RECURSIVE GoodPrefix(_)
GoodPrefix(nodes) ==
    IF nodes = <<>> \/ ~(NodeFields \subseteq DOMAIN Head(nodes)) THEN <<>>
    ELSE <<Head(nodes)>> \o GoodPrefix(Tail(nodes))

AllGood(nodes) == Len(GoodPrefix(nodes)) = Len(nodes)

\* ------------------------------------------------------------ alerts
\* AlertRecord with the slip of parts[2] for the message: what follows the
\* third comma is lost
AlertRecordThirdPart(parts) ==
    [timestamp |-> parts[1], node |-> parts[2], message |-> parts[3]]

\* the record of lines 104-109 without its 'time'
AlertRecord(parts) ==
    [timestamp |-> parts[1], node |-> parts[2],
     message |-> Join(SubSeq(parts, 3, Len(parts)), COMMA)]

\* lines 101-103: the line yields a record
Accepted(line) ==
    /\ line # <<>>
    /\ \E i \in 1..Len(line) : line[i] = COMMA
    /\ Len(Split(line, COMMA)) >= 3

\* line 98: alerts_text.strip().split('\n')
AllLines(text) == Split(Strip(text), NL)

\* ConsideredLines with the slip of lines[:20]: the first lines are taken
ConsideredLinesFirst(text) ==
    IF Len(AllLines(text)) <= PerCycle THEN AllLines(text)
    ELSE SubSeq(AllLines(text), 1, PerCycle)

\* line 98 and the slice of line 100
ConsideredLines(text) == LastN(AllLines(text), PerCycle)

\* the records one _process_alerts call appends, in order
RECURSIVE RecordsOf(_)
RecordsOf(ls) ==
    IF ls = <<>> THEN <<>>
    ELSE (IF Accepted(Head(ls))
          THEN <<AlertRecord(Split(Head(ls), COMMA))>> ELSE <<>>)
         \o RecordsOf(Tail(ls))

\* KeepRecent with the slip of alerts[:50]: the newest records are dropped
KeepOldest(h) == IF Len(h) <= HistoryCap THEN h ELSE SubSeq(h, 1, HistoryCap)

\* alerts[-50:]
KeepRecent(h) == LastN(h, HistoryCap)

\* the alert line "t<k>,N1,m<k>"
AlertLine(k) == <<"t", NatStr(k), COMMA, "N", "1", COMMA, "m", NatStr(k)>>

RECURSIVE LinesFromTo(_, _)
LinesFromTo(a, b) ==
    IF a > b THEN <<>> ELSE <<AlertLine(a)>> \o LinesFromTo(a + 1, b)

\* the text of the lines, each ended by a newline
RECURSIVE TextOf(_)
TextOf(ls) == IF ls = <<>> THEN <<>> ELSE Head(ls) \o <<NL>> \o TextOf(Tail(ls))

\* one accepted line whose message holds a comma, one line with a single comma
ShortText == TextOf(<< <<"t", COMMA, "N", "2", COMMA, "l", "o", COMMA, "w">>,
                       <<"t", COMMA, "N", "2">> >>)

\* 24 lines of which the last 20 are considered; two of those yield no record
LongText == TextOf(LinesFromTo(1, 10) \o << <<"x">>, <<>> >> \o LinesFromTo(11, 22))

\* seven accepted lines, one of them with commas in its message
MidText == TextOf(LinesFromTo(31, 33)
                  \o << <<"t", COMMA, "N", "2", COMMA, "a", COMMA, COMMA, "b">> >>
                  \o LinesFromTo(35, 37))

AlertFailures ==
    { [kind |-> "raise", status |-> 0, text |-> <<>>],
      [kind |-> "resp", status |-> 503, text |-> <<>>] }

AlertResponsesMain ==
    AlertFailures \cup { [kind |-> "resp", status |-> HTTP_OK, text |-> ShortText] }

AlertResponsesFull ==
    AlertFailures \cup { [kind |-> "resp", status |-> HTTP_OK, text |-> x] :
                         x \in {<<>>, MidText, LongText} }

\* every response text of up to MaxTextLen characters out of a letter, the
\* comma and the newline
AlertTexts ==
    UNION { [1..k -> {"a", COMMA, NL}] : k \in 0..MaxTextLen }

AlertResponsesParse ==
    { [kind |-> "resp", status |-> HTTP_OK, text |-> x] : x \in AlertTexts }

\* -------------------------------------------------------------- state
VARIABLES
    running,      \* collector.running
    pc,           \* per thread slot: where its _collect_loop stands
    nres,         \* per thread: how the node request of its cycle ended
    mres,         \* per thread: how _process_data ended in its cycle
    wfailed,      \* per thread: a log write failed in its cycle
    data,         \* per thread: the "nodes" array _process_data iterates
    lines,        \* per thread: the lines _process_alerts iterates
    idx,          \* per thread: the position of the running for loop
    fexists,      \* per thread: what Path(DATA_FILE).exists() returned
    node_data,    \* the global table
    alerts,       \* the global alert history
    last_update,  \* the global last_update (0: None)
    dataFile,     \* DATA_FILE: whether it exists, and its rows
    alertFile,    \* ALERT_FILE exists
    cpc,          \* where the clear_data handler stands
    cresult,      \* what the last clear_data request returned
    sinceClear,   \* clear_data returned success and nothing was merged since
    appended,     \* every alert record appended so far, in order
    alllines,     \* per thread: the list `lines` of line 98 (the model's lines
                  \* is its slice of line 100)
    merged,       \* the readings written to the table, in order, as long as
                  \* no log write failed and no clear was requested
    snap,         \* what the last get_data call serialised
    mpc,          \* where the get_map handler stands
    mlats,        \* get_map: the list lats
    center,       \* get_map: center_lat and center_lng
    during        \* the states the table went through during the get_map call

vars == <<running, pc, nres, mres, wfailed, data, lines, idx, fexists, node_data,
          alerts, last_update, dataFile, alertFile, cpc, cresult, sinceClear,
          appended, alllines, merged, snap, mpc, mlats, center, during>>

readVars == <<snap, mpc, mlats, center, during>>

loopVars == <<pc, nres, mres, wfailed, data, lines, idx, fexists>>
clearVars == <<cpc, cresult>>

Absent == [exists |-> FALSE, rows |-> <<>>]

EmptyTable == [k \in {} |-> 0]

\* center_lat and center_lng are not bound yet
NoCenter == [lat |-> <<0, 1>>, lng |-> <<0, 1>>]

\* a log write failed or a clear was requested: the readings are not followed
Dirty == [clean |-> FALSE, readings |-> <<>>]

Init ==
    /\ running = FALSE
    /\ pc = [t \in Loops |-> "idle"]
    /\ nres = [t \in Loops |-> "none"]
    /\ mres = [t \in Loops |-> "none"]
    /\ wfailed = [t \in Loops |-> FALSE]
    /\ data = [t \in Loops |-> <<>>]
    /\ lines = [t \in Loops |-> <<>>]
    /\ idx = [t \in Loops |-> 0]
    /\ fexists = [t \in Loops |-> FALSE]
    /\ node_data = EmptyTable
    /\ alerts = <<>>
    /\ last_update = 0
    /\ dataFile = Absent
    /\ alertFile \in BOOLEAN
    /\ cpc = "idle"
    /\ cresult = "none"
    /\ sinceClear = FALSE
    /\ appended = <<>>
    /\ alllines = [t \in Loops |-> <<>>]
    /\ merged = [clean |-> TRUE, readings |-> <<>>]
    /\ snap = [nodes |-> EmptyTable, lastUpdate |-> 0]
    /\ mpc = "idle"
    /\ mlats = <<>>
    /\ center = NoCenter
    /\ during = {}

\* ------------------------------------------------------ the collector
Live(t) == pc[t] \notin {"idle", "done"}

FreeSlots == {t \in Loops : ~Live(t)}

\* DataCollector.start: set the flag, create the thread and start it
Start ==
    /\ FreeSlots # {}
    /\ LET t == CHOOSE u \in FreeSlots : \A w \in FreeSlots : u <= w
       IN  /\ running' = TRUE
           /\ pc' = [pc EXCEPT ![t] = "check"]
    /\ UNCHANGED <<nres, mres, wfailed, data, lines, idx, fexists, node_data, alerts,
                   last_update, dataFile, alertFile, cpc, cresult, sinceClear,
                   appended>>
    /\ UNCHANGED <<readVars, alllines, merged>>

\* DataCollector.stop
Stop ==
    /\ running' = FALSE
    /\ UNCHANGED <<loopVars, node_data, alerts, last_update, dataFile,
                   alertFile, cpc, cresult, sinceClear, appended>>
    /\ UNCHANGED <<readVars, alllines, merged>>

\* LoopCheck with the slip of `while True`: the flag is not read
LoopCheckIgnoresFlag(t) ==
    /\ pc[t] = "check"
    /\ pc' = [pc EXCEPT ![t] = "fetchNodes"]
    /\ UNCHANGED <<running, nres, mres, wfailed, data, lines, idx, fexists, node_data,
                   alerts, last_update, dataFile, alertFile, cpc, cresult,
                   sinceClear, appended>>
    /\ UNCHANGED <<readVars, alllines, merged>>

\* the test of `while self.running`
LoopCheck(t) ==
    /\ pc[t] = "check"
    /\ pc' = [pc EXCEPT ![t] = IF running THEN "fetchNodes" ELSE "done"]
    /\ UNCHANGED <<running, nres, mres, wfailed, data, lines, idx, fexists, node_data,
                   alerts, last_update, dataFile, alertFile, cpc, cresult,
                   sinceClear, appended>>
    /\ UNCHANGED <<readVars, alllines, merged>>

\* the rows of the log that are not the header
DataRows == SelectSeq(dataFile.rows, LAMBDA r : r # HeaderRow)

\* how lines 54-56 end for the outcome r of the request
NodeFetchResult(r) ==
    IF r.kind = "raise" THEN "raise"
    ELSE IF r.status # HTTP_OK THEN "status"
    ELSE IF ~r.valid THEN "badjson"
    ELSE "decoded"

\* NodeFetchTarget with the slip of a missing status test (line 55): the body
\* of any answer is decoded and handed to _process_data
NodeFetchTargetAnyStatus(r) ==
    IF r.kind = "raise" THEN "sleep"
    ELSE IF r.status = HTTP_OK /\ ~r.valid THEN "sleep"
    ELSE "procData"

\* where the loop goes after lines 54-56: into _process_data, on to the alert
\* request (line 60), or through the handler of line 64 to the sleep
NodeFetchTarget(r) ==
    IF r.kind = "raise" THEN "sleep"
    ELSE IF r.status # HTTP_OK THEN "fetchAlerts"
    ELSE IF ~r.valid THEN "sleep"
    ELSE "procData"

\* lines 54-57 up to the call of _process_data
FetchNodes(t, responses) ==
    /\ pc[t] = "fetchNodes"
    /\ \E r \in responses :
        /\ (r.kind = "resp" /\ r.status = HTTP_OK /\ r.valid) =>
               /\ Len(DataRows) + Len(GoodPrefix(r.nodes)) <= MaxRows
               /\ AllGood(r.nodes) => last_update < MaxUpdates
        /\ pc' = [pc EXCEPT ![t] = NodeFetchTarget(r)]
        /\ nres' = [nres EXCEPT ![t] = NodeFetchResult(r)]
        /\ IF NodeFetchTarget(r) = "procData"
           THEN /\ data' = [data EXCEPT ![t] = r.nodes]
                /\ idx' = [idx EXCEPT ![t] = 1]
           ELSE UNCHANGED <<data, idx>>
    /\ UNCHANGED <<running, mres, wfailed, lines, fexists, node_data, alerts,
                   last_update, dataFile, alertFile, cpc, cresult, sinceClear,
                   appended>>
    /\ UNCHANGED <<readVars, alllines, merged>>

\* the turn of the for loop at hand assigns node_data[node_id] (lines 74-88)
Writes(t) ==
    /\ idx[t] <= Len(data[t])
    /\ NodeFields \subseteq DOMAIN data[t][idx[t]]

\* ProcessNode without the handler of line 64: the KeyError of a missing key
\* ends the thread
ProcessNodeUncaught(t) ==
    /\ pc[t] = "procData"
    /\ IF idx[t] > Len(data[t])
       THEN /\ last_update' = last_update + 1
            /\ pc' = [pc EXCEPT ![t] = "fetchAlerts"]
            /\ mres' = [mres EXCEPT ![t] = "merged"]
            /\ UNCHANGED <<node_data, sinceClear>>
       ELSE LET node == data[t][idx[t]]
            IN  IF NodeFields \subseteq DOMAIN node
                THEN /\ node_data' = Put(node_data, node["id"], Entry(node))
                     /\ pc' = [pc EXCEPT ![t] = "saveExists"]
                     /\ sinceClear' = FALSE
                     /\ UNCHANGED <<last_update, mres>>
                ELSE /\ pc' = [pc EXCEPT ![t] = "done"]
                     /\ mres' = [mres EXCEPT ![t] = "keyerror"]
                     /\ UNCHANGED <<node_data, last_update, sinceClear>>
    /\ UNCHANGED <<running, nres, wfailed, data, lines, idx, fexists, alerts,
                   dataFile, alertFile, cpc, cresult, appended>>
    /\ during' = IF mpc \in {"lats", "lngs"} THEN during \cup {node_data'} ELSE during
    /\ merged' = IF Writes(t) /\ merged.clean
                 THEN [merged EXCEPT !.readings = Append(@, data[t][idx[t]])]
                 ELSE merged
    /\ UNCHANGED <<snap, mpc, mlats, center, alllines>>

\* ProcessNode with the slip of an indented line 93: last_update is assigned
\* in every turn of the for loop
ProcessNodeStampsInLoop(t) ==
    /\ pc[t] = "procData"
    /\ IF idx[t] > Len(data[t])
       THEN /\ pc' = [pc EXCEPT ![t] = "fetchAlerts"]
            /\ mres' = [mres EXCEPT ![t] = "merged"]
            /\ UNCHANGED <<node_data, last_update, sinceClear>>
       ELSE LET node == data[t][idx[t]]
            IN  IF NodeFields \subseteq DOMAIN node
                THEN /\ node_data' = Put(node_data, node["id"], Entry(node))
                     /\ last_update' = last_update + 1
                     /\ pc' = [pc EXCEPT ![t] = "saveExists"]
                     /\ sinceClear' = FALSE
                     /\ UNCHANGED mres
                ELSE /\ pc' = [pc EXCEPT ![t] = "sleep"]
                     /\ mres' = [mres EXCEPT ![t] = "keyerror"]
                     /\ UNCHANGED <<node_data, last_update, sinceClear>>
    /\ UNCHANGED <<running, nres, wfailed, data, lines, idx, fexists, alerts,
                   dataFile, alertFile, cpc, cresult, appended>>
    /\ during' = IF mpc \in {"lats", "lngs"} THEN during \cup {node_data'} ELSE during
    /\ merged' = IF Writes(t) /\ merged.clean
                 THEN [merged EXCEPT !.readings = Append(@, data[t][idx[t]])]
                 ELSE merged
    /\ UNCHANGED <<snap, mpc, mlats, center, alllines>>

\* one turn of the for loop of _process_data up to the call of _save_to_csv,
\* or the assignment of last_update after the loop
ProcessNode(t) ==
    /\ pc[t] = "procData"
    /\ IF idx[t] > Len(data[t])
       THEN /\ last_update' = last_update + 1
            /\ pc' = [pc EXCEPT ![t] = "fetchAlerts"]
            /\ mres' = [mres EXCEPT ![t] = "merged"]
            /\ UNCHANGED <<node_data, sinceClear>>
       ELSE LET node == data[t][idx[t]]
            IN  IF NodeFields \subseteq DOMAIN node
                THEN /\ node_data' = Put(node_data, node["id"], Entry(node))
                     /\ pc' = [pc EXCEPT ![t] = "saveExists"]
                     /\ sinceClear' = FALSE
                     /\ UNCHANGED <<last_update, mres>>
                ELSE /\ pc' = [pc EXCEPT ![t] = "sleep"]
                     /\ mres' = [mres EXCEPT ![t] = "keyerror"]
                     /\ UNCHANGED <<node_data, last_update, sinceClear>>
    /\ UNCHANGED <<running, nres, wfailed, data, lines, idx, fexists, alerts,
                   dataFile, alertFile, cpc, cresult, appended>>
    /\ during' = IF mpc \in {"lats", "lngs"} THEN during \cup {node_data'} ELSE during
    /\ merged' = IF Writes(t) /\ merged.clean
                 THEN [merged EXCEPT !.readings = Append(@, data[t][idx[t]])]
                 ELSE merged
    /\ UNCHANGED <<snap, mpc, mlats, center, alllines>>

\* _save_to_csv, line 132: Path(DATA_FILE).exists()
SaveToCsvExists(t) ==
    /\ pc[t] = "saveExists"
    /\ fexists' = [fexists EXCEPT ![t] = dataFile.exists]
    /\ pc' = [pc EXCEPT ![t] = "saveWrite"]
    /\ UNCHANGED <<running, nres, mres, wfailed, data, lines, idx, node_data, alerts,
                   last_update, dataFile, alertFile, cpc, cresult, sinceClear,
                   appended>>
    /\ UNCHANGED <<readVars, alllines, merged>>

\* Written with the slip of header=True in both calls of to_csv
WrittenHeaderAlways(file, existed, row) ==
    IF existed
    THEN [exists |-> TRUE, rows |-> file.rows \o <<HeaderRow, row>>]
    ELSE [exists |-> TRUE, rows |-> <<HeaderRow, row>>]

\* what to_csv leaves in the file: mode 'a' without header (line 133), or
\* mode 'w' with header (line 135)
Written(file, existed, row) ==
    IF existed
    THEN [exists |-> TRUE, rows |-> Append(file.rows, row)]
    ELSE [exists |-> TRUE, rows |-> <<HeaderRow, row>>]

\* AfterSave without the handler of line 136: the error of a failed write
\* reaches the handler of line 64
AfterSaveUncaught(ok) == IF ok THEN "procData" ELSE "sleep"

\* where the loop goes when _save_to_csv returns: the write went through, or
\* the handler of line 136 printed the error; either way the for loop of
\* _process_data moves on
AfterSave(ok) == "procData"

\* _save_to_csv, lines 133-137: the write, or the exception handler; then the
\* for loop of _process_data moves on
SaveToCsvWrite(t) ==
    /\ pc[t] = "saveWrite"
    /\ \E ok \in BOOLEAN :
        /\ IF ok
           THEN /\ dataFile' = Written(dataFile, fexists[t],
                                       CsvRow(data[t][idx[t]]["id"],
                                              data[t][idx[t]]))
                /\ UNCHANGED wfailed
           ELSE /\ wfailed' = [wfailed EXCEPT ![t] = TRUE]
                /\ UNCHANGED dataFile
        /\ pc' = [pc EXCEPT ![t] = AfterSave(ok)]
    /\ idx' = [idx EXCEPT ![t] = idx[t] + 1]
    /\ UNCHANGED <<running, nres, mres, data, lines, fexists, node_data, alerts,
                   last_update, alertFile, cpc, cresult, sinceClear, appended>>
    /\ merged' = IF wfailed'[t] # wfailed[t] \/ ~merged.clean THEN Dirty ELSE merged
    /\ UNCHANGED <<readVars, alllines>>

\* lines 60-62 and 98-100: the alert request, and the lines to go through;
\* the locals of the node side are dead
FetchAlerts(t, responses, cap) ==
    /\ pc[t] = "fetchAlerts"
    /\ \E r \in responses :
        /\ (r.kind = "resp" /\ r.status = HTTP_OK) =>
               Len(appended) + Len(RecordsOf(ConsideredLines(r.text))) <= cap
        /\ IF r.kind = "resp" /\ r.status = HTTP_OK
           THEN /\ pc' = [pc EXCEPT ![t] = "procAlerts"]
                /\ alllines' = [alllines EXCEPT ![t] = AllLines(r.text)]
                /\ lines' = [lines EXCEPT ![t] = ConsideredLines(r.text)]
                /\ idx' = [idx EXCEPT ![t] = 1]
           ELSE /\ pc' = [pc EXCEPT ![t] = "sleep"]
                /\ UNCHANGED <<alllines, lines>>
                /\ idx' = [idx EXCEPT ![t] = 0]
    /\ data' = [data EXCEPT ![t] = <<>>]
    /\ fexists' = [fexists EXCEPT ![t] = FALSE]
    /\ UNCHANGED <<running, nres, mres, wfailed, node_data, alerts,
                   last_update, dataFile, alertFile, cpc, cresult, sinceClear,
                   appended>>
    /\ UNCHANGED <<readVars, merged>>

\* one turn of the for loop of _process_alerts (lines 100-109), or the
\* rebinding of line 112 after it
ProcessAlertLine(t) ==
    /\ pc[t] = "procAlerts"
    /\ IF idx[t] > Len(lines[t])
       THEN /\ alerts' = KeepRecent(alerts)
            /\ pc' = [pc EXCEPT ![t] = "sleep"]
            /\ UNCHANGED <<idx, appended, sinceClear>>
       ELSE LET line == lines[t][idx[t]]
            IN  /\ IF Accepted(line)
                   THEN /\ alerts' = Append(alerts, AlertRecord(Split(line, COMMA)))
                        /\ appended' = Append(appended,
                                              AlertRecord(Split(line, COMMA)))
                        /\ sinceClear' = FALSE
                   ELSE UNCHANGED <<alerts, appended, sinceClear>>
                /\ idx' = [idx EXCEPT ![t] = idx[t] + 1]
                /\ UNCHANGED pc
    /\ UNCHANGED <<running, nres, mres, wfailed, data, lines, fexists, node_data,
                   last_update, dataFile, alertFile, cpc, cresult>>
    /\ UNCHANGED <<readVars, alllines, merged>>

\* time.sleep(POLL_INTERVAL) returns; the pass is over and its locals are dead
Sleep(t) ==
    /\ pc[t] = "sleep"
    /\ pc' = [pc EXCEPT ![t] = "check"]
    /\ nres' = [nres EXCEPT ![t] = "none"]
    /\ mres' = [mres EXCEPT ![t] = "none"]
    /\ wfailed' = [wfailed EXCEPT ![t] = FALSE]
    /\ data' = [data EXCEPT ![t] = <<>>]
    /\ lines' = [lines EXCEPT ![t] = <<>>]
    /\ idx' = [idx EXCEPT ![t] = 0]
    /\ fexists' = [fexists EXCEPT ![t] = FALSE]
    /\ UNCHANGED <<running, node_data, alerts, last_update, dataFile, alertFile,
                   cpc, cresult, sinceClear, appended>>
    /\ alllines' = [alllines EXCEPT ![t] = <<>>]
    /\ UNCHANGED <<readVars, merged>>

\* ------------------------------------------------------- request handlers
\* get_data: what the handler serialises
get_data == [nodes |-> node_data, lastUpdate |-> last_update]

\* get_alerts: what the handler serialises
get_alerts == [alerts |-> alerts]

\* get_data has run: the response holds the table and last_update
GetData ==
    /\ snap' = get_data
    /\ UNCHANGED <<running, loopVars, node_data, alerts, last_update, dataFile,
                   alertFile, cpc, cresult, sinceClear, appended, alllines,
                   merged, mpc, mlats, center, during>>

\* lines 32-34 as fractions in lowest terms: 12.9716 and 77.5946
FALLBACK_LAT == <<32429, 2500>>
FALLBACK_LNG == <<387973, 5000>>

\* [n[f] for n in table.values()]
RECURSIVE ValuesOf(_, _)
ValuesOf(table, f) ==
    IF DOMAIN table = {} THEN <<>>
    ELSE LET k == CHOOSE j \in DOMAIN table : TRUE
         IN  <<table[k][f]>> \o ValuesOf([j \in (DOMAIN table) \ {k} |-> table[j]], f)

\* sum(list)
RECURSIVE Sum(_)
Sum(list) == IF list = <<>> THEN 0 ELSE Head(list) + Sum(Tail(list))

\* Mean with the slip of // for /: the quotient is floored
MeanFloored(list) == <<Sum(list) \div Len(list), 1>>

\* sum(list) / len(list), as a fraction
Mean(list) == <<Sum(list), Len(list)>>

\* get_map, line 164 (and 170): the truth test of node_data
MapTest ==
    /\ mpc = "idle"
    /\ IF DOMAIN node_data # {}
       THEN /\ mpc' = "lats"
            /\ UNCHANGED center
       ELSE /\ mpc' = "done"
            /\ center' = [lat |-> FALLBACK_LAT, lng |-> FALLBACK_LNG]
    /\ during' = {node_data}
    /\ UNCHANGED <<running, loopVars, node_data, alerts, last_update, dataFile,
                   alertFile, cpc, cresult, sinceClear, appended, alllines,
                   merged, snap, mlats>>

\* get_map, line 165: the list lats
MapLats ==
    /\ mpc = "lats"
    /\ mlats' = ValuesOf(node_data, "lat")
    /\ mpc' = "lngs"
    /\ UNCHANGED <<running, loopVars, node_data, alerts, last_update, dataFile,
                   alertFile, cpc, cresult, sinceClear, appended, alllines,
                   merged, snap, center, during>>

\* get_map, lines 166-168: the list lngs and the two means
MapLngs ==
    /\ mpc = "lngs"
    /\ center' = [lat |-> Mean(mlats), lng |-> Mean(ValuesOf(node_data, "lng"))]
    /\ mpc' = "done"
    /\ UNCHANGED <<running, loopVars, node_data, alerts, last_update, dataFile,
                   alertFile, cpc, cresult, sinceClear, appended, alllines,
                   merged, snap, mlats, during>>

\* get_map returns; its locals are dead
MapReturn ==
    /\ mpc = "done"
    /\ mpc' = "idle"
    /\ mlats' = <<>>
    /\ center' = NoCenter
    /\ during' = {}
    /\ UNCHANGED <<running, loopVars, node_data, alerts, last_update, dataFile,
                   alertFile, cpc, cresult, sinceClear, appended, alllines,
                   merged, snap>>

\* clear_data, line 258: Path(DATA_FILE).exists()
ClearCheckData ==
    /\ cpc = "idle"
    /\ cpc' = IF dataFile.exists THEN "unlinkData" ELSE "checkAlert"
    /\ cresult' = "none"
    /\ UNCHANGED <<running, loopVars, node_data, alerts, last_update, dataFile,
                   alertFile, sinceClear, appended>>
    /\ merged' = Dirty
    /\ UNCHANGED <<readVars, alllines>>

\* ClearUnlinkData with the slip of a second exists() in place of unlink():
\* the log is left where it is
ClearUnlinkDataSkips ==
    /\ cpc = "unlinkData"
    /\ cpc' = "checkAlert"
    /\ UNCHANGED <<running, loopVars, node_data, alerts, last_update, dataFile,
                   alertFile, cresult, sinceClear, appended>>
    /\ UNCHANGED <<readVars, alllines, merged>>

\* clear_data, line 259: Path(DATA_FILE).unlink(), or the handler of line 263
ClearUnlinkData ==
    /\ cpc = "unlinkData"
    /\ \E ok \in BOOLEAN :
        IF ok /\ dataFile.exists
        THEN /\ dataFile' = Absent
             /\ cpc' = "checkAlert"
             /\ UNCHANGED cresult
        ELSE /\ cpc' = "idle"
             /\ cresult' = "error"
             /\ UNCHANGED dataFile
    /\ UNCHANGED <<running, loopVars, node_data, alerts, last_update,
                   alertFile, sinceClear, appended>>
    /\ UNCHANGED <<readVars, alllines, merged>>

\* clear_data, line 260: Path(ALERT_FILE).exists(); line 262 if it does not
ClearCheckAlert ==
    /\ cpc = "checkAlert"
    /\ IF alertFile
       THEN /\ cpc' = "unlinkAlert"
            /\ UNCHANGED <<cresult, sinceClear>>
       ELSE /\ cpc' = "idle"
            /\ cresult' = "success"
            /\ sinceClear' = TRUE
    /\ UNCHANGED <<running, loopVars, node_data, alerts, last_update, dataFile,
                   alertFile, appended>>
    /\ UNCHANGED <<readVars, alllines, merged>>

\* clear_data, lines 261-264: Path(ALERT_FILE).unlink() and the return
ClearUnlinkAlert ==
    /\ cpc = "unlinkAlert"
    /\ \E ok \in BOOLEAN :
        IF ok
        THEN /\ alertFile' = FALSE
             /\ cresult' = "success"
             /\ sinceClear' = TRUE
        ELSE /\ cresult' = "error"
             /\ UNCHANGED <<alertFile, sinceClear>>
    /\ cpc' = "idle"
    /\ UNCHANGED <<running, loopVars, node_data, alerts, last_update, dataFile,
                   appended>>
    /\ UNCHANGED <<readVars, alllines, merged>>

\* --------------------------------------------------- specifications
\* The program as __main__ runs it: collector.start() once (line 550), then
\* the poll loop beside the Flask handlers.  collector.stop() (line 557) runs
\* only as the process exits.
MainStart == (\A t \in Loops : pc[t] = "idle") /\ Start

LoopStep(t) ==
    \/ LoopCheck(t)
    \/ FetchNodes(t, NodeResponses)
    \/ ProcessNode(t)
    \/ SaveToCsvExists(t)
    \/ SaveToCsvWrite(t)
    \/ FetchAlerts(t, AlertResponsesMain, MaxAlertsMain)
    \/ ProcessAlertLine(t)
    \/ Sleep(t)

Next ==
    \/ MainStart
    \/ \E t \in Loops : LoopStep(t)
    \/ ClearCheckData
    \/ ClearUnlinkData
    \/ ClearCheckAlert
    \/ ClearUnlinkAlert

Spec == Init /\ [][Next]_vars

\* The poll loop of the program without the requests of the Flask handlers,
\* up to the collector.stop() of the shutdown.
NextLoop ==
    \/ MainStart
    \/ Stop
    \/ \E t \in Loops : LoopStep(t)

SpecLoop == Init /\ [][NextLoop]_vars

\* The thread of the loop is scheduled again and again, requests.get returns
\* or raises within its timeout and time.sleep returns.
LiveSpecLoop == SpecLoop /\ \A t \in Loops : WF_vars(LoopStep(t))

\* The collector driven through its interface: start() and stop() called in
\* any order, with a gateway whose node endpoint fails or reports no node and
\* whose alert endpoint fails.
NodeResponsesAPI == { r \in NodeResponses : r.valid => r.nodes = <<>> }

LoopStepAPI(t) ==
    \/ LoopCheck(t)
    \/ FetchNodes(t, NodeResponsesAPI)
    \/ ProcessNode(t)
    \/ FetchAlerts(t, AlertFailures, 0)
    \/ Sleep(t)

NextAPI ==
    \/ Start
    \/ Stop
    \/ \E t \in Loops : LoopStepAPI(t)

SpecAPI == Init /\ [][NextAPI]_vars

LiveSpecAPI == SpecAPI /\ \A t \in Loops : WF_vars(LoopStepAPI(t))

\* The alert side at the program's caps: one loop, a gateway whose node
\* endpoint answers 503 and whose alert endpoint answers with any of the texts.
NodeResponses503 == { r \in NodeResponses : r.kind = "resp" /\ r.status = 503 }

LoopStepAlerts(t) ==
    \/ LoopCheck(t)
    \/ FetchNodes(t, NodeResponses503)
    \/ FetchAlerts(t, AlertResponsesFull, MaxAlertsFull)
    \/ ProcessAlertLine(t)
    \/ Sleep(t)

NextAlerts ==
    \/ MainStart
    \/ \E t \in Loops : LoopStepAlerts(t)

SpecAlerts == Init /\ [][NextAlerts]_vars

\* The parsing of the alert lines: one loop, a gateway whose node endpoint
\* answers 503 and whose alert endpoint answers with any short text.
LoopStepParse(t) ==
    \/ LoopCheck(t)
    \/ FetchNodes(t, NodeResponses503)
    \/ FetchAlerts(t, AlertResponsesParse, MaxAlertsParse)
    \/ ProcessAlertLine(t)
    \/ Sleep(t)

NextParse ==
    \/ MainStart
    \/ \E t \in Loops : LoopStepParse(t)

SpecParse == Init /\ [][NextParse]_vars

\* The readers beside the poll loop: one loop, a gateway whose node endpoint
\* answers with any of the node arrays and whose alert endpoint fails.
NodeResponsesRead == { r \in NodeResponses : r.valid }

LoopStepRead(t) ==
    \/ LoopCheck(t)
    \/ FetchNodes(t, NodeResponsesRead)
    \/ ProcessNode(t)
    \/ SaveToCsvExists(t)
    \/ SaveToCsvWrite(t)
    \/ FetchAlerts(t, AlertFailures, 0)
    \/ Sleep(t)

\* get_data requests
NextData ==
    \/ MainStart
    \/ \E t \in Loops : LoopStepRead(t)
    \/ GetData

SpecData == Init /\ [][NextData]_vars

\* get_map requests, with a gateway whose node arrays are complete
NodeResponsesMap == { r \in NodeResponses : r.valid /\ AllGood(r.nodes) }

LoopStepMap(t) ==
    \/ LoopCheck(t)
    \/ FetchNodes(t, NodeResponsesMap)
    \/ ProcessNode(t)
    \/ SaveToCsvExists(t)
    \/ SaveToCsvWrite(t)
    \/ FetchAlerts(t, AlertFailures, 0)
    \/ Sleep(t)

NextMap ==
    \/ MainStart
    \/ \E t \in Loops : LoopStepMap(t)
    \/ MapTest
    \/ MapLats
    \/ MapLngs
    \/ MapReturn

SpecMap == Init /\ [][NextMap]_vars

\* ------------------------------------------------------------ claims
\* the last element of nodes that carries the identifier id
LastFor(nodes, id) ==
    nodes[CHOOSE i \in 1..Len(nodes) :
              /\ nodes[i]["id"] = id
              /\ \A j \in (i + 1)..Len(nodes) : nodes[j]["id"] # id]

\* the table holds, for every identifier of nodes, the eleven fields of the
\* (last) element of nodes with that identifier, and nothing else
TableMatches(nodes) ==
    \A i \in 1..Len(nodes) :
        LET id == nodes[i]["id"]
        IN  /\ id \in DOMAIN node_data
            /\ DOMAIN node_data[id] = EntryFields
            /\ \A f \in EntryFields : node_data[id][f] = LastFor(nodes, id)[f]

\* a log row of node id whose temp cell differs from the table entry of id
OlderRowOf(id) ==
    \E k \in 1..Len(dataFile.rows) :
        /\ dataFile.rows[k][2] = id
        /\ dataFile.rows[k][3] # IntStr(node_data[id]["temp"])

\* C1: when _process_data has completed on a response whose elements all
\* carry the required fields, the table holds for every identifier of the
\* response one entry whose eleven telemetry fields are those of the response
\* element for that identifier; nothing of an earlier entry survives.
C1_MergeReplacesEntries ==
    \A t \in Loops :
        (pc[t] = "fetchAlerts" /\ mres[t] = "merged") => TableMatches(data[t])

\* C1: a second pass has completed on a response that names N1 once, and the
\* log still shows the different reading an earlier pass stored for N1
C1_Witness ==
    \E t \in Loops :
        /\ pc[t] = "fetchAlerts" /\ mres[t] = "merged"
        /\ last_update = 2
        /\ data[t] = << Elem("N1", 2), Elem("N2", 1) >>
        /\ OlderRowOf("N1")

\* no _process_alerts call is under way
NoAlertMerge == \A t \in Loops : pc[t] # "procAlerts"

\* C2: after any sequence of completed alert merges the history is the last
\* min(50, n) of the n records appended so far, in the order of appending.
C2_HistoryIsRecentSuffix ==
    NoAlertMerge =>
        LET n == Len(appended)
            m == IF n < HistoryCap THEN n ELSE HistoryCap
        IN  /\ Len(alerts) = m
            /\ \A k \in 1..m : alerts[k] = appended[n - m + k]

\* C2: merges have completed that appended more than 50 records, so that the
\* oldest were evicted
C2_Witness ==
    /\ NoAlertMerge
    /\ Len(appended) > HistoryCap
    /\ Len(alerts) = HistoryCap
    /\ alerts[1] # appended[1]

\* a step of the clear_data handler
ClearStep == cpc' # cpc \/ cresult' # cresult

Moved(t) == pc'[t] # pc[t] \/ idx'[t] # idx[t]

\* C4 as stated: whatever the calls of start() and stop(), at most one poll
\* loop is active at any time.
C4_AtMostOneLoop == Cardinality({t \in Loops : Live(t)}) <= 1

\* C5: a loop begins a cycle only with the flag set, so none begins once
\* stop() was called and start() is not called again; it ends only at the
\* test of the flag, so a cycle under way runs to its end; stop() changes the
\* flag and nothing else; and once the flag stays cleared every loop ends.
C5_StopIsAdvisory ==
    /\ [][\A t \in Loops :
            /\ (pc[t] # "fetchNodes" /\ pc'[t] = "fetchNodes") => running
            /\ (pc[t] # "done" /\ pc'[t] = "done") => (pc[t] = "check" /\ ~running)
         ]_vars
    /\ [][(running /\ ~running') =>
            UNCHANGED <<loopVars, node_data, alerts, last_update, dataFile,
                        alertFile, cpc, cresult, sinceClear, appended>>
         ]_vars
    /\ (<>[](~running)) => <>[](\A t \in Loops : ~Live(t))

\* C5: stop() was called, a loop has ended on it, a response was merged and
\* another loop is still in the merge of its cycle
C5_Witness ==
    /\ ~running
    /\ \E t \in Loops : pc[t] = "done"
    /\ \E t \in Loops : pc[t] = "procData"
    /\ last_update >= 1

\* C6: a loop ends only when it finds the flag cleared, whatever failed in
\* its cycle; a failed step leads to the sleep; and while the flag stays set
\* cycles start again and again.
C6_FailuresDoNotEndLoop ==
    /\ [][\A t \in Loops :
            /\ (pc[t] # "done" /\ pc'[t] = "done") => ~running
            /\ (/\ Moved(t)
                /\ \/ pc[t] = "fetchNodes" /\ nres'[t] \in {"raise", "badjson"}
                   \/ pc[t] = "procData" /\ mres'[t] = "keyerror")
                   => pc'[t] = "sleep"
         ]_vars
    /\ (<>[]running) => []<>(\E t \in Loops : pc[t] = "fetchNodes")

\* C6: with the flag set, a loop goes to sleep after a cycle that hit a failed
\* log write and then a missing field, and earlier cycles had merged
C6_Witness ==
    \E t \in Loops :
        /\ running /\ pc[t] = "sleep" /\ mres[t] = "keyerror" /\ wfailed[t]
        /\ last_update = MaxUpdates

\* the ways the node fetch fails as a whole: the request raises, the status
\* is not 200, the body is not JSON
WholeFailures == {"raise", "status", "badjson"}

\* C7: no step of a cycle whose node fetch failed as a whole changes
\* last_update, the table or the log.
C7_FailedFetchChangesNothing ==
    [][\A t \in Loops :
          (Moved(t) /\ (nres[t] \in WholeFailures \/ nres'[t] \in WholeFailures)) =>
              UNCHANGED <<last_update, node_data, dataFile>>
      ]_vars

\* C7: a cycle whose node response was not JSON has ended, with a table, a
\* log and a last_update of earlier cycles in place
C7_Witness ==
    \E t \in Loops :
        /\ pc[t] = "sleep" /\ nres[t] = "badjson"
        /\ last_update = 1
        /\ "N1" \in DOMAIN node_data
        /\ Len(dataFile.rows) = 2

\* C8 as stated: in a cycle whose response holds an element without a
\* required field no step of the merge changes the table or the log.
C8_MissingFieldMergesNothing ==
    [][\A t \in Loops :
          (/\ Moved(t)
           /\ pc[t] \in {"procData", "saveExists", "saveWrite"}
           /\ ~AllGood(data[t])) =>
              UNCHANGED <<node_data, dataFile>>
      ]_vars

\* no clear_data request was made so far
NoClearYet == cpc = "idle" /\ cresult = "none"

\* a is an initial part of b
IsPrefix(a, b) == Len(a) <= Len(b) /\ \A k \in 1..Len(a) : a[k] = b[k]

\* the row _save_to_csv is writing for thread t
RowInHand(t) == CsvRow(data[t][idx[t]]["id"], data[t][idx[t]])

\* C9: over _save_to_csv calls with no clear in between, a call on a missing
\* log leaves the header row and one data row, a call on an existing log
\* adds one data row at its end (a call whose write raises leaves the file as
\* it was), the header is the first row and no other, and no step but the
\* deletion by clear_data changes or removes a row.
C9_LogGrowsByOneRow ==
    /\ [][\A t \in Loops :
            (/\ pc[t] = "saveWrite" /\ Moved(t)
             /\ fexists[t] = dataFile.exists) =>
                \/ dataFile' = dataFile
                \/ /\ ~dataFile.exists
                   /\ dataFile'.exists
                   /\ dataFile'.rows = <<HeaderRow, RowInHand(t)>>
                \/ /\ dataFile.exists
                   /\ dataFile'.exists
                   /\ dataFile'.rows = dataFile.rows \o <<RowInHand(t)>>
                   /\ RowInHand(t) # HeaderRow
         ]_vars
    /\ [][(cpc # "unlinkData") => IsPrefix(dataFile.rows, dataFile'.rows)]_vars
    /\ [](NoClearYet =>
            (dataFile.exists =>
                /\ Len(dataFile.rows) >= 2
                /\ dataFile.rows[1] = HeaderRow
                /\ \A k \in 2..Len(dataFile.rows) : dataFile.rows[k] # HeaderRow))

\* C9: without any clear, the log holds the header and the rows of three calls
C9_Witness ==
    /\ NoClearYet
    /\ dataFile.exists
    /\ Len(dataFile.rows) = 4
    /\ dataFile.rows[2] # dataFile.rows[3]

\* C10: when the write of _save_to_csv fails the entry of the reading stays
\* in the table and the merge goes on with the next element; a pass with a
\* failed write still ends with every reading in the table and last_update
\* assigned, and the loop goes on to the alert request.
C10_WriteFailureKeepsMerge ==
    /\ [][\A t \in Loops :
            (pc[t] = "saveWrite" /\ Moved(t) /\ wfailed'[t]) =>
                /\ node_data' = node_data
                /\ \A f \in EntryFields :
                       node_data'[data[t][idx[t]]["id"]][f] = data[t][idx[t]][f]
                /\ pc'[t] = "procData"
                /\ idx'[t] = idx[t] + 1
                /\ data'[t] = data[t]
         ]_vars
    /\ [][\A t \in Loops :
            (/\ pc[t] = "procData" /\ Moved(t) /\ wfailed[t]
             /\ idx[t] > Len(data[t])) =>
                /\ last_update' = last_update + 1
                /\ pc'[t] = "fetchAlerts"
         ]_vars
    /\ [](\A t \in Loops :
            (wfailed[t] /\ pc[t] \in {"fetchAlerts", "procAlerts", "sleep"}) =>
                \/ mres[t] = "keyerror"
                \/ /\ mres[t] = "merged"
                   /\ last_update >= 1
                   /\ pc[t] = "fetchAlerts" => TableMatches(data[t]))

\* C10: a pass over two readings has ended with both in the table and
\* last_update assigned although both log writes failed
C10_Witness ==
    \E t \in Loops :
        /\ pc[t] = "fetchAlerts" /\ mres[t] = "merged" /\ wfailed[t]
        /\ data[t] = << Elem("N1", 2), Elem("N2", 1) >>
        /\ TableMatches(data[t])
        /\ NoClearYet /\ ~dataFile.exists
        /\ last_update = 1

\* the positions of the commas of a line
CommaPositions(line) == {i \in 1..Len(line) : line[i] = COMMA}

\* the k-th smallest member of a set of numbers
Kth(S, k) == CHOOSE x \in S : Cardinality({y \in S : y < x}) = k - 1

\* the record the claim describes for a line with at least two commas
RecordByCommas(line) ==
    LET p1 == Kth(CommaPositions(line), 1)
        p2 == Kth(CommaPositions(line), 2)
    IN  [timestamp |-> SubSeq(line, 1, p1 - 1),
         node |-> SubSeq(line, p1 + 1, p2 - 1),
         message |-> SubSeq(line, p2 + 1, Len(line))]

\* C11: every turn of the for loop of _process_alerts appends a record if and
\* only if its line holds at least two commas; the record's timestamp is the
\* text before the first comma, its node the text between the first and the
\* second, its message all that follows the second comma, further commas
\* included.  A line with fewer commas, or an empty one, changes nothing and
\* the loop goes on with the next line.
C11_RecordIffTwoCommas ==
    [][\A t \in Loops :
          (pc[t] = "procAlerts" /\ idx[t] <= Len(lines[t]) /\ idx'[t] = idx[t] + 1) =>
              LET line == lines[t][idx[t]]
              IN  /\ pc'[t] = "procAlerts"
                  /\ IF Cardinality(CommaPositions(line)) >= 2
                     THEN alerts' = Append(alerts, RecordByCommas(line))
                     ELSE alerts' = alerts
      ]_vars

\* the line "a,,," was parsed: its message is the comma after the second one
C11_Witness ==
    \E t \in Loops :
        /\ pc[t] = "procAlerts"
        /\ idx[t] = 2
        /\ lines[t] = << <<"a", COMMA, COMMA, COMMA>> >>
        /\ alerts = << [timestamp |-> <<"a">>, node |-> <<>>,
                        message |-> <<COMMA>>] >>

\* the complete elements of the node arrays: the readings a cycle can merge
Readings ==
    UNION { { b[i] : i \in {j \in 1..Len(b) : NodeFields \subseteq DOMAIN b[j]} } :
            b \in NodeBodies }

\* C12: every entry of a table snapshot that get_data took, also one taken in
\* the middle of a merge pass, is entirely the reading of one response
\* element for that identifier: no entry mixes fields of two readings.
C12_SnapshotEntriesWhole ==
    \A id \in DOMAIN snap.nodes :
        \E r \in Readings : r["id"] = id /\ snap.nodes[id] = Entry(r)

\* a snapshot taken in the middle of a pass: N1 is of the pass under way, N2
\* of an earlier one
C12_Witness ==
    \E t \in Loops :
        /\ pc[t] \in {"saveExists", "saveWrite"}
        /\ idx[t] = 1
        /\ data[t] = << Elem("N1", 2), Elem("N2", 1) >>
        /\ snap.nodes = node_data
        /\ DOMAIN snap.nodes = {"N1", "N2"}
        /\ snap.nodes["N1"] = Entry(Elem("N1", 2))
        /\ snap.nodes["N2"] = Entry(Elem("N2", 2))

\* two fractions are the same number
RatEq(a, b) == a[1] * b[2] = b[1] * a[2]

SameCenter(c, d) == RatEq(c.lat, d.lat) /\ RatEq(c.lng, d.lng)

\* the sum of field f over the entries of a table
RECURSIVE SumOver(_, _)
SumOver(T, f) ==
    IF DOMAIN T = {} THEN 0
    ELSE LET k == CHOOSE j \in DOMAIN T : TRUE
         IN  T[k][f] + SumOver([j \in (DOMAIN T) \ {k} |-> T[j]], f)

Fallback == [lat |-> FALLBACK_LAT, lng |-> FALLBACK_LNG]

\* the center the claims describe for the table T
CenterOf(T) ==
    IF DOMAIN T = {} THEN Fallback
    ELSE [lat |-> <<SumOver(T, "lat"), Cardinality(DOMAIN T)>>,
          lng |-> <<SumOver(T, "lng"), Cardinality(DOMAIN T)>>]

\* C13: when get_map has computed its center and the table did not change
\* during the call, the center is the fallback coordinate if the table is empty
\* and otherwise (mean lat, mean lng) over all entries, which is not the
\* fallback.
C13_CenterIsFallbackOrMean ==
    (mpc = "done" /\ during = {node_data}) =>
        /\ SameCenter(center, CenterOf(node_data))
        /\ SameCenter(center, Fallback) <=> (DOMAIN node_data = {})

\* the center of a table of two entries whose mean is not a whole number
C13_Witness ==
    /\ mpc = "done"
    /\ during = {node_data}
    /\ DOMAIN node_data = {"N1", "N2"}
    /\ node_data["N1"]["lat"] = 14 /\ node_data["N2"]["lat"] = 13
    /\ center = [lat |-> <<27, 2>>, lng |-> <<157, 2>>]

\* C14: in every state, also in the middle of an alert merge, the history a
\* get_alerts request would serialise holds at most HistoryCap records.
C14_ReaderSeesAtMostCap == Len(get_alerts.alerts) <= HistoryCap

\* C15: the center get_map has computed is the center of one state the table
\* was in at some instant of the call: mean lat and mean lng over the same
\* entries.
C15_CenterOfOneState ==
    mpc = "done" => \E T \in during : SameCenter(center, CenterOf(T))

\* C16: whenever the log exists, its first row is the header row.
C16_LogStartsWithHeader ==
    dataFile.exists => (dataFile.rows # <<>> /\ dataFile.rows[1] = HeaderRow)

\* C17: no cycle ends without its alert request: the loop reaches the sleep
\* only from the alert request or from the alert merge, whatever happened on
\* the node side.
C17_AlertSideStillRuns ==
    [][\A t \in Loops :
          (pc'[t] = "sleep" /\ pc[t] # "sleep") =>
              pc[t] \in {"fetchAlerts", "procAlerts"}
      ]_vars

\* the identifiers of the response the pass of thread t goes through
RespIds(t) ==
    { data[t][i]["id"] : i \in {j \in 1..Len(data[t]) : "id" \in DOMAIN data[t][j]} }

\* C18: no step removes an identifier from the table, and a step of the poll
\* loop leaves the entry of every identifier that is absent from the response
\* of its cycle as it was.
C18_MergeKeepsOtherEntries ==
    [][/\ \A id \in DOMAIN node_data : id \in DOMAIN node_data'
       /\ \A t \in Loops :
             Moved(t) =>
                 \A id \in (DOMAIN node_data) \ RespIds(t) :
                     node_data'[id] = node_data[id]
      ]_vars

\* N1 was merged from a response without N2; the entry of N2 is the one an
\* earlier cycle wrote
C18_Witness ==
    \E t \in Loops :
        /\ pc[t] = "saveExists"
        /\ data[t] = << Elem("N1", 1) >>
        /\ DOMAIN node_data = {"N1", "N2"}
        /\ node_data["N1"] = Entry(Elem("N1", 1))
        /\ node_data["N2"] = Entry(Elem("N2", 2))

\* how many lines of the response of thread t's cycle precede its last PerCycle
Skipped(t) ==
    IF Len(alllines[t]) > PerCycle THEN Len(alllines[t]) - PerCycle ELSE 0

\* C19: an alert merge goes through the last PerCycle lines of the response
\* and through nothing else: its k-th turn handles the k-th of those lines and
\* appends that line's record or nothing, there are at most PerCycle turns,
\* the loop ends when those lines are used up, and no other step appends a
\* record.
C19_OnlyLastLinesConsidered ==
    [][/\ \A t \in Loops :
             (pc[t] = "procAlerts" /\ Moved(t)) =>
                 IF pc'[t] = "procAlerts"
                 THEN LET k == Skipped(t) + idx[t]
                      IN  /\ idx[t] <= PerCycle
                          /\ k <= Len(alllines[t])
                          /\ appended' =
                                 IF Cardinality(CommaPositions(alllines[t][k])) >= 2
                                 THEN Append(appended, RecordByCommas(alllines[t][k]))
                                 ELSE appended
                 ELSE /\ Skipped(t) + idx[t] = Len(alllines[t]) + 1
                      /\ appended' = appended
       /\ appended' # appended =>
             \E t \in Loops : pc[t] = "procAlerts" /\ idx'[t] = idx[t] + 1
      ]_vars

\* the merge of a response of 24 lines is over: 18 of its last 20 lines gave
\* a record, its first four lines gave none
C19_Witness ==
    \E t \in Loops :
        /\ pc[t] = "sleep"
        /\ Len(alllines[t]) = 24
        /\ Len(lines[t]) = PerCycle
        /\ Len(appended) = 18
        /\ appended[1] = RecordByCommas(AlertLine(5))

\* the key of a reading that a numeric column of the log is to carry
ColumnKey ==
    [temp |-> "temp", pressure |-> "pres", altitude |-> "alt", battery |-> "bat",
     latitude |-> "lat", longitude |-> "lng", rssi |-> "rssi", snr |-> "snr"]

\* the row carries the reading r under the columns of the header
RowCarries(row, r) ==
    /\ Len(row) = Len(HeaderRow)
    /\ \A i \in 1..Len(HeaderRow) :
          IF HeaderRow[i] = "timestamp" THEN TRUE
          ELSE IF HeaderRow[i] = "node" THEN row[i] = r["id"]
          ELSE IF HeaderRow[i] = "alert" THEN row[i] = BoolStr(r["alert"])
          ELSE row[i] = IntStr(r[ColumnKey[HeaderRow[i]]])

\* a _save_to_csv call for the reading just written is under way
RowPending == IF \E t \in Loops : pc[t] \in {"saveExists", "saveWrite"} THEN 1 ELSE 0

\* C20: a step of the poll loop that writes a table entry leads into
\* _save_to_csv for the same element; the table is written nowhere else;
\* _save_to_csv makes one write attempt, which appends nothing or a row that
\* carries that reading, and only then the for loop moves to the next element.
\* Hence, as long as no write failed and no clear was requested, the data
\* rows of the log carry, in order, exactly the readings written to the table
\* (but for the one whose row is still to be written).
C20_RowPerMergedReading ==
    /\ [](merged.clean =>
            /\ Len(DataRows) = Len(merged.readings) - RowPending
            /\ \A i \in 1..Len(DataRows) : RowCarries(DataRows[i], merged.readings[i]))
    /\ [][\A t \in Loops :
             Moved(t) =>
                 /\ (pc[t] = "procData" /\ Writes(t)) =>
                        /\ pc'[t] = "saveExists"
                        /\ idx'[t] = idx[t]
                        /\ node_data'[data[t][idx[t]]["id"]] = Entry(data[t][idx[t]])
                 /\ node_data' # node_data => (pc[t] = "procData" /\ Writes(t))
                 /\ pc[t] = "saveExists" => (pc'[t] = "saveWrite" /\ idx'[t] = idx[t])
                 /\ pc[t] = "saveWrite" =>
                        /\ pc'[t] = "procData"
                        /\ idx'[t] = idx[t] + 1
                        /\ \/ dataFile' = dataFile
                           \/ /\ Len(dataFile'.rows) \in {Len(dataFile.rows) + 1, 2}
                              /\ RowCarries(dataFile'.rows[Len(dataFile'.rows)],
                                            data[t][idx[t]])
        ]_vars

\* three readings of two cycles were written to the table and to the log
C20_Witness ==
    \E t \in Loops :
        /\ pc[t] = "fetchAlerts"
        /\ merged.clean
        /\ merged.readings = << Elem("N2", 3), Elem("N2", 2), Elem("N1", 1) >>
        /\ Len(DataRows) = 3
        /\ dataFile.rows[2][8] = "80"

\* C21: last_update changes only in the step of a poll loop that ends the for
\* loop of _process_data, after every element of the response (there may be
\* none) was handled without error: at that step every identifier of the
\* response has a table entry equal to its reading.  A pass that an element
\* without a required key aborts goes to the sleep with last_update as it was,
\* whatever entries it replaced before.
C21_StampOnlyAfterWholePass ==
    [][/\ last_update' # last_update =>
             \E t \in Loops :
                 /\ pc[t] = "procData" /\ pc'[t] = "fetchAlerts"
                 /\ idx[t] = Len(data[t]) + 1
                 /\ AllGood(data[t])
                 /\ TableMatches(data[t])
                 /\ node_data' = node_data
       /\ \A t \in Loops :
             (pc[t] = "procData" /\ pc'[t] # pc[t] /\ idx[t] <= Len(data[t])
                  /\ ~Writes(t)) =>
                 /\ last_update' = last_update
                 /\ pc'[t] = "sleep"
      ]_vars

\* a pass replaced the entry of N2 and was then aborted: last_update is still
\* the one of the earlier pass that merged N1
C21_Witness ==
    \E t \in Loops :
        /\ pc[t] = "sleep"
        /\ mres[t] = "keyerror"
        /\ data[t] = << Elem("N2", 2), ElemNoLat("N1", 3), Elem("N1", 1) >>
        /\ last_update = 1
        /\ DOMAIN node_data = {"N1", "N2"}
        /\ node_data["N2"] = Entry(Elem("N2", 2))
        /\ node_data["N1"] = Entry(Elem("N1", 2))
====
